---- MODULE Spec2Model ----
(***************************************************************************)
(* paccat: print files of pacman packages (src/src/main.rs).               *)
(*                                                                         *)
(* A string is a sequence of one-symbol strings ("d/a" is <<"d","/","a">>);*)
(* a data chunk is a sequence of byte symbols, NUL being the zero byte.    *)
(* The model follows run(): Match::new, get_targets (one step per target), *)
(* the fetch, then for every archive File::open and dump_files (one step   *)
(* per archive event), and main()'s exit.                                  *)
(***************************************************************************)
EXTENDS Integers, Sequences, FiniteSets, TLC

\* ---------------------------------------------------------------- bounds
\* longest target list of a run
MaxTargets == 2
\* longest event stream of one archive
MaxEvents == 3

\* ---------------------------------------------------------------- symbols
NUL == "NUL"
SEP == "/"
NL == "\n"

Str_a == <<"a">>
Str_b == <<"b">>
Str_da == <<"d", "/", "a">>
Str_d == <<"d", "/">>
Str_sa == <<"/", "a">>
Str_sda == <<"/", "d", "/", "a">>
Str_dot == <<".">>
Str_beg_a == <<"^", "a">>
Str_b_end == <<"b", "$">>
Str_paren == <<"(">>
Str_end == <<"$">>

\* target strings: a package name, a url-shaped name, a plain file name
Targ_p == <<"p">>
Targ_u == <<"u", ":", "/", "/", "p">>
Targ_f == <<"f">>

\* ---------------------------------------------------------------- strings
Min(a, b) == IF a < b THEN a ELSE b

\* str.contains(char)
Contains(s, c) == \E i \in 1..Len(s) : s[i] = c

\* str.contains(&str)
ContainsStr(s, sub) ==
    \E i \in 1..(Len(s) - Len(sub) + 1) : SubSeq(s, i, i + Len(sub) - 1) = sub

\* str.trim_start_matches(char): every leading c is removed
RECURSIVE TrimStartMatches(_, _)
TrimStartMatches(s, c) ==
    IF s # <<>> /\ Head(s) = c THEN TrimStartMatches(Tail(s), c) ELSE s

\* RSplitFirst as split(c).next(): the text before the first c, or all of s
RECURSIVE RSplitFirst_front(_, _)
RSplitFirst_front(s, c) ==
    IF s = <<>> THEN <<>>
    ELSE IF Head(s) = c THEN <<>>
    ELSE <<Head(s)>> \o RSplitFirst_front(Tail(s), c)

\* str.rsplit(c).next().unwrap(): the text after the last c, or all of s
RECURSIVE RSplitFirst(_, _)
RSplitFirst(s, c) ==
    IF s = <<>> THEN <<>>
    ELSE IF s[Len(s)] = c THEN <<>>
    ELSE Append(RSplitFirst(SubSeq(s, 1, Len(s) - 1), c), s[Len(s)])

\* ---------------------------------------------------------------- regex
\* The part of the regex crate's syntax the patterns use: a literal symbol,
\* "." (any symbol but a newline), "^" and "$" (start and end of the text).
\* An unclosed "(" does not compile.
RegexCompiles(pat) == ~Contains(pat, "(")

RECURSIVE RegexMatchAt(_, _, _, _)
RegexMatchAt(pat, k, s, si) ==
    IF k > Len(pat) THEN TRUE
    ELSE IF pat[k] = "^" THEN si = 1 /\ RegexMatchAt(pat, k + 1, s, si)
    ELSE IF pat[k] = "$" THEN si = Len(s) + 1 /\ RegexMatchAt(pat, k + 1, s, si)
    ELSE IF si > Len(s) THEN FALSE
    ELSE IF pat[k] = "." THEN s[si] # NL /\ RegexMatchAt(pat, k + 1, s, si + 1)
    ELSE s[si] = pat[k] /\ RegexMatchAt(pat, k + 1, s, si + 1)

\* Regex::is_match: the pattern matches somewhere in s
RegexIsMatch(pat, s) == \E si \in 1..(Len(s) + 1) : RegexMatchAt(pat, 1, s, si)

\* RegexSet::is_match: some pattern of the set matches
RegexSetIsMatch(pats, s) == \E i \in 1..Len(pats) : RegexIsMatch(pats[i], s)

\* RegexSet::new: fails when a pattern does not compile
RegexSetNew(pats) == \A i \in 1..Len(pats) : RegexCompiles(pats[i])

\* ---------------------------------------------------------------- Match
\* MatchWith::new(regex, files) is Ok
MatchWith_new_ok(regex, pats) == regex => RegexSetNew(pats)

\* Match::new: the matcher (when MatchWith::new is Ok)
Match_new(regex, pats) ==
    [exact_file |-> \E i \in 1..Len(pats) : Contains(pats[i], SEP),
     regex |-> regex,
     files |-> pats]

\* is_match without the return for an empty name
is_match_unguarded(m, file) ==
    LET f == IF ~m.exact_file THEN RSplitFirst(file, SEP) ELSE file
    IN  IF m.regex THEN RegexSetIsMatch(m.files, f)
        ELSE \E i \in 1..Len(m.files) : m.files[i] = f

\* Match::is_match
is_match(m, file) ==
    LET f == IF ~m.exact_file THEN RSplitFirst(file, SEP) ELSE file
    IN  IF f = <<>> THEN FALSE
        ELSE IF m.regex THEN RegexSetIsMatch(m.files, f)
        ELSE \E i \in 1..Len(m.files) : m.files[i] = f

\* is_binary: a zero byte among the first 512 bytes
SniffLen == 512
\* is_binary that flags nothing
is_binary_never(data) == FALSE

is_binary(data) == \E i \in 1..Min(Len(data), SniffLen) : data[i] = NUL

\* want_pkg: the package's manifest has a matching name
want_pkg(pkg, m) == \E i \in 1..Len(pkg.files) : is_match(m, pkg.files[i])

\* ScanStatus with the regex arm counting like the exact arm
ScanStatus_counting(m, n) == IF Len(m.files) = n THEN 0 ELSE 1

\* the per-archive status at the end of dump_files
ScanStatus(m, n) ==
    IF ~m.regex /\ Len(m.files) = n THEN 0
    ELSE IF m.regex /\ n # 0 THEN 0
    ELSE 1

\* BitOr as an assignment: the last status wins
BitOr_last(a, b) == b

\* ret |= status, on statuses 0 and 1
BitOr(a, b) == IF a = 1 \/ b = 1 THEN 1 ELSE 0

\* ---------------------------------------------------------------- inputs
\* a package record of the database: repository, name, file manifest
Pkg(repo, name, manifest) == [repo |-> repo, name |-> name, files |-> manifest]

Repo_core == <<"c">>
Repo_u == <<"u", ":">>
Name_sp == <<"/", "p">>

Manifests == {<<Str_da>>, <<Str_b>>}

\* a database: the packages "c/p" and "u:/" "/p", each present or not
Db(hasP, mp, hasU, mu) ==
    (IF hasP THEN <<Pkg(Repo_core, Targ_p, mp)>> ELSE <<>>)
    \o (IF hasU THEN <<Pkg(Repo_u, Name_sp, mu)>> ELSE <<>>)

Dbs == {Db(hasP, mp, hasU, mu) :
            hasP \in BOOLEAN, mp \in Manifests, hasU \in BOOLEAN, mu \in Manifests}

TargetStrings == {Targ_p, Targ_u, Targ_f}

RECURSIVE SeqsUpTo(_, _)
SeqsUpTo(S, n) ==
    IF n = 0 THEN {<<>>}
    ELSE LET shorter == SeqsUpTo(S, n - 1)
         IN  shorter \cup {Append(q, x) : q \in shorter, x \in S}

TargetLists == SeqsUpTo(TargetStrings, MaxTargets)

\* args.regex and args.files as given on the command line
ExactFileLists ==
    {<<Str_a>>, <<Str_a, Str_a>>, <<Str_a, Str_b>>, <<Str_da>>, <<Str_sa>>,
     <<Str_sda, Str_b>>}
RegexFileLists ==
    {<<Str_a>>, <<Str_dot>>, <<Str_beg_a, Str_b_end>>, <<Str_da>>, <<Str_paren>>,
     <<Str_end>>}

EntryNames == {Str_a, Str_da, Str_b, Str_d}
Chunks == {<<"x">>, <<"x", NUL>>}

\* ArchiveContents
StartOfEntry(n) == [t |-> "StartOfEntry", name |-> n, data |-> <<>>]
DataChunk(v) == [t |-> "DataChunk", name |-> <<>>, data |-> v]
EndOfEntry == [t |-> "EndOfEntry", name |-> <<>>, data |-> <<>>]
ErrEvent == [t |-> "Err", name |-> <<>>, data |-> <<>>]

\* anyhow::Error: what failed, and the string the message carries
Error(kind, what) == [kind |-> kind, what |-> what]
Ok(v) == [ok |-> TRUE, val |-> v, err |-> Error("none", <<>>)]
Err(e) == [ok |-> FALSE, val |-> 0, err |-> e]
NoResult == [ok |-> FALSE, val |-> 0, err |-> Error("running", <<>>)]
NoMatcher == [exact_file |-> FALSE, regex |-> FALSE, files |-> <<>>]
NoExit == -1

\* ---------------------------------------------------------------- state
VARIABLES
    args,       \* Args: regex, quiet, binary, localdb, targets, files
    world,      \* the sync databases, the local database, the existing files
    streamLen,  \* the longest event stream the archives of this run yield
    pc,         \* where run() is: run, targets, fetch, loop, dump, main, exited
    matcher,    \* run: matcher
    ti,         \* get_targets: index of the next target
    download,   \* get_targets: download
    repo,       \* get_targets: repo
    files,      \* get_targets: files
    fetches,    \* calls of alpm.fetch_pkgurl so far
    pkgs,       \* run: pkgs
    pi,         \* run: index of the next archive of pkgs
    ret,        \* run: ret
    scans,      \* calls of dump_files so far
    state,      \* dump_files: state
    found,      \* dump_files: found
    cur_file,   \* dump_files: cur_file
    stream,     \* dump_files: the events the archive has yielded so far
    out,        \* what the current dump_files has written to stdout
    diag,       \* the lines on stderr since the current dump_files began
    statuses,   \* the statuses the finished dump_files calls returned
    missing,    \* history: a finished archive had no entry for some pattern
    result,     \* what run() returned
    exitCode    \* the status the process exited with

vars == <<args, world, streamLen, pc, matcher, ti, download, repo, files, fetches,
          pkgs, pi, ret, scans, state, found, cur_file, stream, out, diag,
          statuses, missing, result, exitCode>>

targetVars == <<ti, download, repo, files, fetches, pkgs>>
dumpVars == <<state, found, cur_file, stream, out, diag>>

Args(regex, quiet, binary, localdb, targets, fs) ==
    [regex |-> regex, quiet |-> quiet, binary |-> binary, localdb |-> localdb,
     targets |-> targets, files |-> fs]

World(sync, local, fs) == [sync |-> sync, local |-> local, fs |-> fs]

\* the world of the runs that vary the patterns and the archives
World0 == World(Db(TRUE, <<Str_da>>, FALSE, <<Str_b>>), <<>>, {Targ_f})

InitLocals ==
    /\ pc = "run"
    /\ matcher = NoMatcher
    /\ ti = 1 /\ download = <<>> /\ repo = <<>> /\ files = <<>> /\ fetches = 0
    /\ pkgs = <<>> /\ pi = 1 /\ ret = 0 /\ scans = 0
    /\ state = "Skip" /\ found = 0 /\ cur_file = <<>>
    /\ stream = <<>> /\ out = <<>> /\ diag = <<>>
    /\ statuses = <<>> /\ missing = FALSE
    /\ result = NoResult
    /\ exitCode = NoExit

\* runs over every pattern list and flag, on local archive files
InitScan ==
    /\ \E regex \in BOOLEAN, quiet \in BOOLEAN, binary \in BOOLEAN :
         \E fs \in (IF regex THEN RegexFileLists ELSE ExactFileLists) :
           \E targets \in {<<Targ_f>>, <<Targ_f, Targ_f>>} :
             args = Args(regex, quiet, binary, FALSE, targets, fs)
    /\ world = World0
    /\ streamLen = MaxEvents

\* runs over every target list and world, on short archives
InitTargets ==
    /\ \E targets \in TargetLists, localdb \in BOOLEAN :
         /\ args = Args(FALSE, TRUE, FALSE, localdb, targets, <<Str_a>>)
         /\ targets # <<>> => ~localdb
    /\ \E sync \in Dbs, local \in Dbs, fs \in SUBSET TargetStrings :
         /\ world = World(sync, local, fs)
         /\ args.targets = <<>> => fs = {}
         /\ args.targets # <<>> \/ ~args.localdb => local = <<>>
    /\ streamLen = 1

Init == InitLocals /\ (InitScan \/ InitTargets)

\* TrimmedFiles that leaves the patterns as given
TrimmedFiles_none(fs) == fs

\* ---------------------------------------------------------------- run
\* the patterns of run(): every leading separator trimmed
TrimmedFiles(fs) == [i \in 1..Len(fs) |-> TrimStartMatches(fs[i], SEP)]

\* run(), up to the call of get_targets
RunStart ==
    /\ pc = "run"
    /\ \E tty \in BOOLEAN, alpm_ok \in BOOLEAN :
         LET pats == TrimmedFiles(args.files) IN
         /\ args' = [args EXCEPT !.binary = @ \/ ~tty]
         /\ IF ~MatchWith_new_ok(args.regex, pats)
            THEN /\ result' = Err(Error("regex", <<>>))
                 /\ pc' = "main"
                 /\ UNCHANGED matcher
            ELSE /\ matcher' = Match_new(args.regex, pats)
                 /\ IF alpm_ok
                    THEN pc' = "targets" /\ UNCHANGED result
                    ELSE pc' = "main" /\ result' = Err(Error("alpm", <<>>))
    /\ UNCHANGED <<world, streamLen, targetVars, pi, ret, scans, dumpVars,
                   statuses, missing, exitCode>>

\* ---------------------------------------------------------------- get_targets
\* DbListExt::pkg: the package of that name in the sync databases, or none
SyncPkg(db, name) == {i \in 1..Len(db) : db[i].name = name}

\* get_dbpkg: the sync package a target names, by name or as repo/name
get_dbpkg(db, targ) ==
    {i \in 1..Len(db) :
        \/ db[i].name = targ
        \/ db[i].repo \o <<SEP>> \o db[i].name = targ}

\* Wanted without the filter: every package of db
Wanted_all(db, m) == db

\* the subsequence of the packages of db that satisfy want_pkg
RECURSIVE Wanted(_, _)
Wanted(db, m) ==
    IF db = <<>> THEN <<>>
    ELSE (IF want_pkg(Head(db), m) THEN <<Head(db)>> ELSE <<>>) \o Wanted(Tail(db), m)

\* the sync packages named like the packages of a list, those without one dropped
RECURSIVE InSync(_, _)
InSync(list, db) ==
    IF list = <<>> THEN <<>>
    ELSE LET hit == SyncPkg(db, Head(list).name)
         IN  (IF hit = {} THEN <<>> ELSE <<db[CHOOSE i \in hit : \A j \in hit : i <= j]>>)
             \o InSync(Tail(list), db)

\* Classify with the url test before the package lookup
Classify_urlFirst(w, targ) ==
    IF ContainsStr(targ, <<":", "/", "/">>) THEN "url"
    ELSE IF get_dbpkg(w.sync, targ) # {} THEN "package"
    ELSE IF targ \in w.fs THEN "file"
    ELSE "none"

\* Classify without the bail: what is no package and no url is taken as a file
Classify_lenient(w, targ) ==
    IF get_dbpkg(w.sync, targ) # {} THEN "package"
    ELSE IF ContainsStr(targ, <<":", "/", "/">>) THEN "url"
    ELSE "file"

\* how get_targets takes one target: package, url, file, or none of them
Classify(w, targ) ==
    IF get_dbpkg(w.sync, targ) # {} THEN "package"
    ELSE IF ContainsStr(targ, <<":", "/", "/">>) THEN "url"
    ELSE IF targ \in w.fs THEN "file"
    ELSE "none"

\* get_targets with no target: the wanted packages of the databases
GetTargetsAll ==
    /\ pc = "targets"
    /\ args.targets = <<>>
    /\ repo' = IF args.localdb
               THEN InSync(Wanted(world.local, matcher), world.sync)
               ELSE Wanted(world.sync, matcher)
    /\ pc' = "fetch"
    /\ UNCHANGED <<args, world, streamLen, matcher, ti, download, files, fetches,
                   pkgs, pi, ret, scans, dumpVars, statuses, missing, result,
                   exitCode>>

\* get_targets: one turn of the loop over args.targets
GetTargetsStep ==
    /\ pc = "targets"
    /\ ti <= Len(args.targets)
    /\ LET targ == args.targets[ti]
           kind == Classify(world, targ)
           hit == get_dbpkg(world.sync, targ)
           next == IF ti = Len(args.targets) THEN "fetch" ELSE "targets"
       IN  \/ /\ kind = "package"
              /\ LET pkg == world.sync[CHOOSE i \in hit : \A j \in hit : i <= j]
                 IN  repo' = IF want_pkg(pkg, matcher) THEN Append(repo, pkg) ELSE repo
              /\ pc' = next /\ ti' = ti + 1
              /\ UNCHANGED <<download, files, result>>
           \/ /\ kind = "url"
              /\ download' = Append(download, targ)
              /\ pc' = next /\ ti' = ti + 1
              /\ UNCHANGED <<repo, files, result>>
           \/ /\ kind = "file"
              /\ files' = Append(files, targ)
              /\ pc' = next /\ ti' = ti + 1
              /\ UNCHANGED <<repo, download, result>>
           \/ /\ kind = "none"
              /\ result' = Err(Error("target", targ))
              /\ pc' = "main"
              /\ UNCHANGED <<ti, repo, download, files>>
    /\ UNCHANGED <<args, world, streamLen, matcher, fetches, pkgs, pi, ret, scans,
                   dumpVars, statuses, missing, exitCode>>

\* get_download_url: the url a sync package is downloaded from
get_download_url(pkg) == <<"m", ":", "/", "/">> \o pkg.repo \o <<SEP>> \o pkg.name

\* alpm.fetch_pkgurl: the file in the cache directory a url is fetched to
CachePath(url) == <<"cache", SEP>> \o RSplitFirst(url, SEP)

\* get_targets after the classification: the urls of repo, the fetch, the result
GetTargetsFetch ==
    /\ pc = "fetch"
    /\ \E url_ok \in BOOLEAN, fetch_ok \in BOOLEAN :
         LET urls == download \o [i \in 1..Len(repo) |-> get_download_url(repo[i])]
         IN  \/ /\ repo # <<>> /\ ~url_ok
                /\ result' = Err(Error("url", <<>>))
                /\ pc' = "main"
                /\ UNCHANGED <<fetches, pkgs>>
             \/ /\ url_ok /\ urls # <<>> /\ ~fetch_ok
                /\ fetches' = fetches + 1
                /\ result' = Err(Error("fetch", <<>>))
                /\ pc' = "main"
                /\ UNCHANGED pkgs
             \/ /\ url_ok /\ fetch_ok
                /\ fetches' = fetches + 1
                /\ pkgs' = files \o [i \in 1..Len(urls) |-> CachePath(urls[i])]
                /\ pc' = "loop"
                /\ UNCHANGED result
    /\ ti' = 1 /\ download' = <<>> /\ repo' = <<>> /\ files' = <<>>
    /\ UNCHANGED <<args, world, streamLen, matcher, pi, ret, scans, dumpVars,
                   statuses, missing, exitCode>>

\* ---------------------------------------------------------------- the archives
\* a line on stderr: a binary-file notice of dump_files, or main's "error: .."
Line(kind, what) == [kind |-> kind, what |-> what]

\* run's loop: File::open, ArchiveIterator::from_read and the call of dump_files
OpenArchive ==
    /\ pc = "loop"
    /\ pi <= Len(pkgs)
    /\ \E opened \in {"ok", "open", "archive"} :
         IF opened = "ok"
         THEN /\ pc' = "dump"
              /\ scans' = scans + 1
              /\ state' = "Skip" /\ found' = 0 /\ cur_file' = <<>>
              /\ stream' = <<>> /\ out' = <<>> /\ diag' = <<>>
              /\ UNCHANGED result
         ELSE /\ pc' = "main"
              /\ result' = Err(Error(opened, pkgs[pi]))
              /\ UNCHANGED <<scans, dumpVars>>
    /\ UNCHANGED <<args, world, streamLen, matcher, targetVars, pi, ret, statuses,
                   missing, exitCode>>

\* the archive may yield one more event
MoreEvents == pc = "dump" /\ Len(stream) < streamLen

\* a write to stdout that fails ends dump_files with the error
WriteFails ==
    /\ pc' = "main"
    /\ result' = Err(Error("write", <<>>))
    /\ UNCHANGED out

dumpFrame == <<args, world, streamLen, matcher, targetVars, pi, ret, scans, statuses,
               missing, exitCode>>

\* QuietLine without the newline of writeln!
QuietLine_bare(file) == file

\* writeln!(stdout, "{}", file): the name and a newline
QuietLine(file) == file \o <<NL>>

\* OnStartOfEntry that counts a matched entry only when its content is to be
\* printed
OnStartOfEntry_countPrinted ==
    /\ MoreEvents
    /\ \E file \in EntryNames, written \in BOOLEAN :
         /\ stream' = Append(stream, StartOfEntry(file))
         /\ IF is_match(matcher, file)
            THEN IF args.quiet
                 THEN /\ IF written
                         THEN /\ out' = out \o QuietLine(file)
                              /\ UNCHANGED <<pc, result>>
                         ELSE WriteFails
                      /\ UNCHANGED <<found, cur_file, state>>
                 ELSE /\ found' = found + 1
                      /\ cur_file' = file
                      /\ state' = "FirstChunk"
                      /\ UNCHANGED <<out, pc, result>>
            ELSE UNCHANGED <<found, cur_file, state, out, pc, result>>
    /\ UNCHANGED <<diag, dumpFrame>>

\* dump_files: ArchiveContents::StartOfEntry(file)
OnStartOfEntry ==
    /\ MoreEvents
    /\ \E file \in EntryNames, written \in BOOLEAN :
         /\ stream' = Append(stream, StartOfEntry(file))
         /\ IF is_match(matcher, file)
            THEN /\ found' = found + 1
                 /\ IF args.quiet
                    THEN /\ IF written
                            THEN /\ out' = out \o QuietLine(file)
                                 /\ UNCHANGED <<pc, result>>
                            ELSE WriteFails
                         /\ UNCHANGED <<cur_file, state>>
                    ELSE /\ cur_file' = file
                         /\ state' = "FirstChunk"
                         /\ UNCHANGED <<out, pc, result>>
            ELSE UNCHANGED <<found, cur_file, state, out, pc, result>>
    /\ UNCHANGED <<diag, dumpFrame>>

\* OnDataChunk whose binary guard ignores args.binary
OnDataChunk_guardAlways ==
    /\ MoreEvents
    /\ \E v \in Chunks, written \in BOOLEAN :
         /\ stream' = Append(stream, DataChunk(v))
         /\ IF state = "FirstChunk"
            THEN IF is_binary(v)
                 THEN /\ state' = "Skip"
                      /\ diag' = Append(diag, Line("binary", cur_file))
                      /\ UNCHANGED <<out, pc, result>>
                 ELSE /\ IF written
                         THEN out' = out \o v /\ UNCHANGED <<pc, result>>
                         ELSE WriteFails
                      /\ UNCHANGED <<state, diag>>
            ELSE IF state = "Reading"
            THEN /\ IF written
                    THEN out' = out \o v /\ UNCHANGED <<pc, result>>
                    ELSE WriteFails
                 /\ UNCHANGED <<state, diag>>
            ELSE UNCHANGED <<state, diag, out, pc, result>>
    /\ UNCHANGED <<found, cur_file, dumpFrame>>

\* dump_files: the three ArchiveContents::DataChunk(v) arms
OnDataChunk ==
    /\ MoreEvents
    /\ \E v \in Chunks, written \in BOOLEAN :
         /\ stream' = Append(stream, DataChunk(v))
         /\ IF state = "FirstChunk"
            THEN IF is_binary(v) /\ ~args.binary
                 THEN /\ state' = "Skip"
                      /\ diag' = Append(diag, Line("binary", cur_file))
                      /\ UNCHANGED <<out, pc, result>>
                 ELSE /\ IF written
                         THEN out' = out \o v /\ UNCHANGED <<pc, result>>
                         ELSE WriteFails
                      /\ UNCHANGED <<state, diag>>
            ELSE IF state = "Reading"
            THEN /\ IF written
                    THEN out' = out \o v /\ UNCHANGED <<pc, result>>
                    ELSE WriteFails
                 /\ UNCHANGED <<state, diag>>
            ELSE UNCHANGED <<state, diag, out, pc, result>>
    /\ UNCHANGED <<found, cur_file, dumpFrame>>

\* dump_files: ArchiveContents::EndOfEntry
OnEndOfEntry ==
    /\ MoreEvents
    /\ stream' = Append(stream, EndOfEntry)
    /\ state' = "Skip"
    /\ UNCHANGED <<found, cur_file, out, diag, pc, result, dumpFrame>>

\* OnErr that skips the event and goes on with the stream
OnErr_skipped ==
    /\ MoreEvents
    /\ stream' = Append(stream, ErrEvent)
    /\ UNCHANGED <<state, found, cur_file, out, diag, pc, result, dumpFrame>>

\* dump_files: ArchiveContents::Err(e)
OnErr ==
    /\ MoreEvents
    /\ stream' = Append(stream, ErrEvent)
    /\ pc' = "main"
    /\ result' = Err(Error("archive", <<>>))
    /\ UNCHANGED <<state, found, cur_file, out, diag, dumpFrame>>

\* the entries of an archive whose names a matcher accepts
Matched(m, s) == {k \in 1..Len(s) : s[k].t = "StartOfEntry" /\ is_match(m, s[k].name)}

\* every pattern of the matcher is matched by some entry of the archive
EveryPatternMatched(m, s) ==
    \A i \in 1..Len(m.files) : Matched([m EXCEPT !.files = <<m.files[i]>>], s) # {}

\* dump_files after the last event, and run's ret |= ..
DumpEnd ==
    /\ pc = "dump"
    /\ LET status == ScanStatus(matcher, found)
       IN  /\ ret' = BitOr(ret, status)
           /\ statuses' = Append(statuses, status)
    /\ missing' = (missing \/ ~EveryPatternMatched(matcher, stream))
    /\ pi' = pi + 1
    /\ pc' = "loop"
    /\ UNCHANGED <<args, world, streamLen, matcher, targetVars, scans, dumpVars,
                   result, exitCode>>

\* run: Ok(ret) after the last archive
RunReturn ==
    /\ pc = "loop"
    /\ pi > Len(pkgs)
    /\ result' = Ok(ret)
    /\ pc' = "main"
    /\ UNCHANGED <<args, world, streamLen, matcher, targetVars, pi, ret, scans,
                   dumpVars, statuses, missing, exitCode>>

\* ExitStatus with a status of its own for an error
ExitStatus_two(r) == IF r.ok THEN r.val ELSE 2

\* the status main exits with for what run returned
ExitStatus(r) == IF r.ok THEN r.val ELSE 1

\* main: exit with run's status, or print the error and exit
MainExit ==
    /\ pc = "main"
    /\ exitCode' = ExitStatus(result)
    /\ diag' = IF result.ok THEN diag ELSE Append(diag, Line("error", result.err.what))
    /\ pc' = "exited"
    /\ UNCHANGED <<args, world, streamLen, matcher, targetVars, pi, ret, scans,
                   state, found, cur_file, stream, out, statuses, missing, result>>

Next ==
    \/ RunStart
    \/ GetTargetsAll
    \/ GetTargetsStep
    \/ GetTargetsFetch
    \/ OpenArchive
    \/ OnStartOfEntry
    \/ OnDataChunk
    \/ OnEndOfEntry
    \/ OnErr
    \/ DumpEnd
    \/ RunReturn
    \/ MainExit

Spec == Init /\ [][Next]_vars

\* ---------------------------------------------------------------- properties
Last(q) == q[Len(q)]

\* run() returned Ok
Completed == pc \in {"main", "exited"} /\ result.ok

\* the locals of dump_files are those of a call that returned Ok
ScanDone == statuses # <<>> /\ (pc = "loop" \/ Completed)

HasZeroByte(data) == \E i \in 1..Len(data) : data[i] = NUL

\* the last StartOfEntry of a stream (0: none)
LastStart(s) ==
    LET starts == {k \in 1..Len(s) : s[k].t = "StartOfEntry"}
    IN  IF starts = {} THEN 0 ELSE CHOOSE k \in starts : \A j \in starts : j <= k

\* the stream is inside a matched entry: after its StartOfEntry came DataChunks
\* only, at least one, and the first of them has no zero byte
InUnflaggedEntry(m, s) ==
    LET k == LastStart(s)
    IN  /\ k > 0 /\ k < Len(s)
        /\ is_match(m, s[k].name)
        /\ \A j \in (k + 1)..Len(s) : s[j].t = "DataChunk"
        /\ ~HasZeroByte(s[k + 1].data)

\* C1: in exact mode a run that scanned every archive without error exits with
\* status 0 exactly when, in every scanned archive, every requested pattern is
\* matched by at least one entry.
C1_ExitZeroIffAllMatched ==
    (pc = "exited" /\ result.ok /\ ~args.regex) => (exitCode = 0 <=> ~missing)

\* C2: with quiet and allowBinary both off, once the first DataChunk of a matched
\* entry had no zero byte, every later DataChunk of that entry is written and no
\* binary notice is printed, whatever the later chunk holds.
C2_OnlyFirstChunkGuarded ==
    [][(/\ pc = "dump" /\ pc' = "dump"
        /\ ~args.quiet /\ ~args.binary
        /\ InUnflaggedEntry(matcher, stream)
        /\ Len(stream') = Len(stream) + 1
        /\ Last(stream').t = "DataChunk")
       => (out' = out \o Last(stream').data /\ diag' = diag)]_vars

\* C3: in exact mode the status of a finished scan is 0 if and only if found
\* equals the number of distinct requested patterns, and 1 otherwise.
C3_StatusIffDistinctFound ==
    (ScanDone /\ ~args.regex) =>
        /\ Last(statuses) \in {0, 1}
        /\ Last(statuses) = 0 <=>
             found = Cardinality({matcher.files[i] : i \in 1..Len(matcher.files)})

\* C4: in regex mode the status of a finished scan is 0 if and only if some entry
\* name of that archive matched, that is found is not 0, and 1 otherwise, however
\* many patterns were requested.
C4_RegexStatus ==
    (ScanDone /\ args.regex) =>
        /\ Last(statuses) \in {0, 1}
        /\ Last(statuses) = 0 <=> Matched(matcher, stream) # {}
        /\ found # 0 <=> Matched(matcher, stream) # {}

\* a regex scan with two patterns requested and one entry matched returned 0
C4_Witness ==
    /\ ScanDone /\ args.regex
    /\ Len(matcher.files) = 2 /\ found = 1 /\ Last(statuses) = 0

\* the status the rule of dump_files gives an archive with n matched entries
OwnStatus(m, n) == IF (IF m.regex THEN n # 0 ELSE n = Len(m.files)) THEN 0 ELSE 1

\* C5: the status run() returns is the bitwise OR of the statuses of its scans, 0
\* if and only if every scan returned 0; found counts the matched entries of the
\* current archive only, so each status is that of the archive on its own.
C5_StatusIsOrOfScans ==
    /\ ret = (IF \E i \in 1..Len(statuses) : statuses[i] # 0 THEN 1 ELSE 0)
    /\ Completed =>
         /\ Len(statuses) = Len(pkgs)
         /\ result.val = ret
         /\ result.val = 0 <=> \A i \in 1..Len(statuses) : statuses[i] = 0
    /\ (pc = "dump" \/ ScanDone) => found = Cardinality(Matched(matcher, stream))
    /\ ScanDone => Last(statuses) = OwnStatus(matcher, Cardinality(Matched(matcher, stream)))

\* a run of two archives ended: the first satisfied the patterns, the second,
\* scanned after it, did not, and the run's status is 1
C5_Witness ==
    /\ pc = "exited" /\ result.ok
    /\ statuses = <<0, 1>> /\ exitCode = 1
    /\ Matched(matcher, stream) = {}

\* get_targets has been entered (Match::new and alpm_init were Ok)
PastInit == pc \notin {"run", "targets"} /\ result.err.kind \notin {"regex", "alpm"}

\* the database a run without targets enumerates
Enumerated == IF args.localdb THEN world.local ELSE world.sync

\* the packages of the enumerated database whose manifest has a matching name
MatchingPkgs ==
    {j \in 1..Len(Enumerated) :
        \E i \in 1..Len(Enumerated[j].files) : is_match(matcher, Enumerated[j].files[i])}

NoMatchExit ==
    ExitStatus(Ok(BitOr(0, ScanStatus(Match_new(args.regex, TrimmedFiles(args.files)), 0))))

\* C7 as stated: a run that ends in an error exits with a message and a status
\* that differs from the status of a run that completed without finding a match.
C7_ErrorStatusDistinct ==
    (pc = "exited" /\ ~result.ok) =>
        /\ diag # <<>> /\ Last(diag).kind = "error"
        /\ exitCode # NoMatchExit

\* C7 as amended: a run that ends in an error exits with a message and the fixed
\* status 1, which is also the status of a run that completed without finding a
\* match in its last archive.
C7_ErrorExitsOne ==
    /\ (pc = "exited" /\ ~result.ok) =>
         /\ diag # <<>> /\ Last(diag).kind = "error"
         /\ exitCode = 1
         /\ exitCode = NoMatchExit
    /\ (pc = "exited" /\ result.ok /\ scans > 0 /\ Matched(matcher, stream) = {}) =>
         exitCode = 1

\* an archive stream yielded Err after a matched entry and the run has exited
C7_Witness ==
    /\ pc = "exited" /\ result.err.kind = "archive"
    /\ Len(stream) = 2 /\ found = 1
    /\ exitCode = 1

\* what the claim's order makes of a target
IsPackage(t) == get_dbpkg(world.sync, t) # {}
IsUrl(t) == ContainsStr(t, <<":", "/", "/">>)
IsFile(t) == t \in world.fs

\* C8: a turn of the target loop queues the target as exactly one kind, in the
\* order package, url, file: a target the database resolves goes to no other
\* queue, whatever else it is; a target with "://" that is no package is queued
\* as a url, also when a file of that name exists; else an existing file is
\* queued as a file.
C8_ClassifyOrder ==
    [][(pc = "targets" /\ args.targets # <<>>) =>
        LET t == args.targets[ti] IN
        /\ IsPackage(t) =>
             /\ download' = download /\ files' = files /\ pc' # "main"
             /\ \/ repo' = repo
                \/ /\ Len(repo') = Len(repo) + 1
                   /\ SubSeq(repo', 1, Len(repo)) = repo
                   /\ \E i \in get_dbpkg(world.sync, t) : Last(repo') = world.sync[i]
        /\ (~IsPackage(t) /\ IsUrl(t)) =>
             download' = Append(download, t) /\ files' = files /\ repo' = repo
        /\ (~IsPackage(t) /\ ~IsUrl(t) /\ IsFile(t)) =>
             files' = Append(files, t) /\ download' = download /\ repo' = repo]_vars

\* the target "u://p" is resolved by the database, has "://" and names an
\* existing file: it was queued as a package and as nothing else
C8_Witness ==
    /\ pc \in {"targets", "fetch"} /\ ti = 2
    /\ args.targets[1] = Targ_u
    /\ IsPackage(Targ_u) /\ IsUrl(Targ_u) /\ IsFile(Targ_u)
    /\ Len(repo) = 1 /\ download = <<>> /\ files = <<>>

\* the targets that are no package, have no "://" and name no existing file
BadTargets ==
    {i \in 1..Len(args.targets) :
        LET t == args.targets[i] IN ~IsPackage(t) /\ ~IsUrl(t) /\ ~IsFile(t)}

FirstBad == CHOOSE i \in BadTargets : \A j \in BadTargets : i <= j

\* C9: when some target is no package, has no "://" and names no existing file,
\* the run never calls the fetch and never scans an archive; get_targets fails
\* with an error that carries that target.
C9_UnresolvableAborts ==
    BadTargets # {} =>
        /\ fetches = 0 /\ scans = 0 /\ pkgs = <<>>
        /\ pc \notin {"fetch", "loop", "dump"}
        /\ pc \in {"main", "exited"} =>
             /\ ~result.ok
             /\ result.err.kind \in {"regex", "alpm", "target"}
             /\ result.err.kind = "target" => result.err.what = args.targets[FirstBad]
        /\ (pc = "exited" /\ result.err.kind = "target") =>
             Last(diag) = Line("error", args.targets[FirstBad])

\* the second target was unresolvable after the first had been queued as a file
C9_Witness ==
    /\ pc = "exited" /\ result.err.kind = "target"
    /\ BadTargets = {2} /\ files = <<args.targets[1]>>
    /\ fetches = 0 /\ scans = 0

\* a write to stdout failed at the last event of the stream
WriteFailed == pc \in {"main", "exited"} /\ result.err.kind = "write"

Front(q) == SubSeq(q, 1, Len(q) - 1)

\* the names of the matched entries of a stream, each followed by a newline
RECURSIVE MatchedNames(_, _)
MatchedNames(m, s) ==
    IF s = <<>> THEN <<>>
    ELSE MatchedNames(m, Front(s))
         \o (IF Last(s).t = "StartOfEntry" /\ is_match(m, Last(s).name)
             THEN Last(s).name \o <<"\n">> ELSE <<>>)

\* C10: in quiet mode the scan writes the name and a newline for every matched
\* entry, in stream order, and nothing else (the write that failed, if one did,
\* apart); it prints no binary notice and its state stays Skip.
C10_QuietNamesOnly ==
    args.quiet =>
        /\ state = "Skip"
        /\ \A i \in 1..Len(diag) : diag[i].kind # "binary"
        /\ out = MatchedNames(matcher, IF WriteFailed THEN Front(stream) ELSE stream)

\* a quiet scan has seen a matched entry, a DataChunk with a zero byte, and a
\* second matched entry
C10_Witness ==
    /\ args.quiet /\ pc = "dump" /\ Len(stream) = 3
    /\ stream[2].t = "DataChunk" /\ HasZeroByte(stream[2].data)
    /\ Matched(matcher, stream) = {1, 3}
    /\ Len(out) > 3

\* Match::new has returned the matcher of this run
MatcherBuilt == pc \notin {"run"} /\ result.err.kind # "regex"

\* the state Match::new leaves: run() never changes the matcher afterwards, so
\* what holds of is_match here holds of it for the rest of the run
MatcherNew == pc = "targets" /\ ti = 1

\* candidate names is_match is asked about: the entry names, the empty name,
\* names that end with a separator, a name two directories deep
Candidates ==
    EntryNames \cup {<<>>, <<SEP>>, <<"d", SEP, "a", SEP>>, <<"a", SEP>>,
                     <<"b", SEP, "d", SEP, "a">>}

\* path prefixes, each ending with a separator
Prefixes == {<<SEP>>, <<"d", SEP>>, <<"b", SEP, "d", SEP>>}

\* C11: when no pattern contains a separator, is_match looks at the last path
\* component only: is_match(p + c) = is_match(c) for every candidate c and
\* every prefix p that ends with a separator, in exact and in regex mode.
C11_PrefixInvariant ==
    (MatcherNew /\ ~matcher.exact_file) =>
        \A c \in Candidates : \A p \in Prefixes :
            is_match(matcher, p \o c) <=> is_match(matcher, c)

\* a regex matcher without a separator has accepted the entry "d/a", as it
\* accepts "a"
C11_Witness ==
    /\ MatcherBuilt /\ matcher.regex /\ ~matcher.exact_file
    /\ pc = "dump" /\ stream = <<StartOfEntry(Str_da)>> /\ found = 1
    /\ is_match(matcher, Str_a)

\* the name ends with a separator
EndsWithSep(c) == IF c = <<>> THEN FALSE ELSE c[Len(c)] = SEP

\* C12 as stated: for every pattern set and both modes is_match("") is false and
\* is_match of a name that ends with a separator is false.
C12_TrailingSepNeverMatches ==
    MatcherNew =>
        \A c \in Candidates : (c = <<>> \/ EndsWithSep(c)) => ~is_match(matcher, c)

\* C12 as amended: is_match("") is false for every pattern set and both modes;
\* is_match of a name that ends with a separator is false when no pattern
\* contains a separator (exact_file is false).
C12_EmptyNeverMatches ==
    MatcherNew =>
        /\ ~is_match(matcher, <<>>)
        /\ ~matcher.exact_file =>
             \A c \in Candidates : EndsWithSep(c) => ~is_match(matcher, c)

\* under the regex "$", which matches every text, the scan has seen the entry
\* "d/" and has not counted it
C12_Witness ==
    /\ MatcherBuilt /\ matcher.regex /\ matcher.files = <<Str_end>>
    /\ pc = "dump" /\ stream = <<StartOfEntry(Str_d)>> /\ found = 0
    /\ RegexSetIsMatch(matcher.files, <<>>)

\* C13: the list of archive paths that get_targets returns holds no path twice,
\* so no path is scanned by more than one call of dump_files.
C13_NoDuplicatePath ==
    \A i \in 1..Len(pkgs) : \A j \in 1..Len(pkgs) : i # j => pkgs[i] # pkgs[j]

\* the archive being scanned has yielded Err
ErrSeen == stream # <<>> /\ Last(stream).t = "Err"

\* C14: when the archive yields Err the scan stops there: nothing is written for
\* or after that event, no status is computed for the archive, no later archive
\* is opened, and the run ends as an error (exit status 1) whatever the statuses
\* of the archives before.
C14_ErrAbortsRun ==
    /\ [](ErrSeen =>
            /\ pc \in {"main", "exited"}
            /\ ~result.ok /\ result.err.kind = "archive"
            /\ Len(statuses) = scans - 1
            /\ pi = scans
            /\ pc = "exited" => exitCode = 1)
    /\ [][ErrSeen' =>
            /\ out' = out /\ stream' \in {stream, Append(stream, ErrEvent)}
            /\ scans' = scans /\ statuses' = statuses /\ pi' = pi /\ ret' = ret
            /\ \A i \in 1..Len(diag') : i > Len(diag) => diag'[i].kind = "error"]_vars

\* the first of two archives yielded Err after a chunk had been written: the run
\* has exited, the second archive was never opened
C14_Witness ==
    /\ pc = "exited" /\ ErrSeen
    /\ Len(pkgs) = 2 /\ scans = 1 /\ statuses = <<>>
    /\ out # <<>> /\ exitCode = 1

\* the stream is inside a matched entry whose first DataChunk was written: after
\* its StartOfEntry came DataChunks only, at least one, and the first was not
\* flagged binary
InWrittenEntry(m, s) ==
    LET k == LastStart(s)
    IN  /\ k > 0 /\ k < Len(s)
        /\ is_match(m, s[k].name)
        /\ \A j \in (k + 1)..Len(s) : s[j].t = "DataChunk"
        /\ ~(HasZeroByte(s[k + 1].data) /\ ~args.binary)

\* C15: for a matched entry that is not quiet the state is FirstChunk for at most
\* one DataChunk: once the first DataChunk is written the state is Reading, and
\* it stays Reading for every further DataChunk of the entry.
C15_ReadingAfterFirstChunk ==
    [][(/\ pc = "dump" /\ pc' = "dump" /\ ~args.quiet
        /\ Len(stream') = Len(stream) + 1
        /\ Last(stream').t = "DataChunk"
        /\ InWrittenEntry(matcher, stream'))
       => state' = "Reading"]_vars

\* C16: from any state, a StartOfEntry whose name does not match, or matches in
\* quiet mode, leaves the state Skip, and a DataChunk that follows it is not
\* written, also when the entry before was matched and not ended.
C16_StartLeavesSkip ==
    [][(/\ pc = "dump" /\ pc' = "dump"
        /\ Len(stream') = Len(stream) + 1)
       => /\ (/\ Last(stream').t = "StartOfEntry"
              /\ ~is_match(matcher, Last(stream').name) \/ args.quiet)
             => state' = "Skip"
          /\ (/\ stream # <<>>
              /\ Last(stream).t = "StartOfEntry"
              /\ ~is_match(matcher, Last(stream).name) \/ args.quiet
              /\ Last(stream').t = "DataChunk")
             => out' = out]_vars

\* C17: when a scan has ended without error, found is the number of
\* StartOfEntry events of the archive whose name is_match accepts, whatever
\* quiet and binary are and whether the content of an entry was written or
\* discarded as binary.
C17_FoundCountsMatchedEntries ==
    ScanDone => found = Cardinality(Matched(matcher, stream))

\* a scan that prints content has ended: its one matched entry was counted
\* though its chunk was discarded as binary and nothing was written
C17_Witness ==
    /\ ScanDone /\ ~args.quiet /\ ~args.binary
    /\ Len(stream) = 3 /\ Matched(matcher, stream) = {1}
    /\ stream[2].t = "DataChunk" /\ HasZeroByte(stream[2].data)
    /\ found = 1 /\ out = <<>>
    /\ \E i \in 1..Len(diag) : diag[i].kind = "binary"

\* the stream is inside a matched entry: after its StartOfEntry came DataChunks
\* only, maybe none
InMatchedEntry(m, s) ==
    LET k == LastStart(s)
    IN  /\ k > 0
        /\ is_match(m, s[k].name)
        /\ \A j \in (k + 1)..Len(s) : s[j].t = "DataChunk"

\* a DataChunk of the entry the stream is in has a zero byte (every chunk of the
\* model is shorter than SniffLen, so that is_binary looks at all of it)
ChunkFlagged(s) ==
    \E j \in (LastStart(s) + 1)..Len(s) : HasZeroByte(s[j].data)

\* C18: with binary off and content printed, the first DataChunk of a matched
\* entry that is flagged binary is not written, sets the state to Skip and
\* prints one notice that names the entry; every later DataChunk of the entry
\* is not written either, prints no further notice, and the state stays Skip.
C18_FlaggedEntryDiscarded ==
    [][(/\ pc = "dump" /\ pc' = "dump"
        /\ ~args.binary /\ ~args.quiet
        /\ InMatchedEntry(matcher, stream)
        /\ Len(stream') = Len(stream) + 1
        /\ Last(stream').t = "DataChunk")
       => /\ (~ChunkFlagged(stream) /\ HasZeroByte(Last(stream').data))
             => /\ out' = out
                /\ state' = "Skip"
                /\ diag' = Append(diag, Line("binary", stream[LastStart(stream)].name))
          /\ ChunkFlagged(stream)
             => /\ out' = out
                /\ state' = "Skip"
                /\ diag' = diag]_vars

\* the first chunk of the matched entry "a" was flagged and a second chunk
\* followed: nothing was written and there is the one notice, for "a"
C18_Witness ==
    /\ pc = "dump" /\ ~args.binary /\ ~args.quiet
    /\ stream = <<StartOfEntry(Str_a), DataChunk(<<"x", NUL>>), DataChunk(<<"x">>)>>
    /\ is_match(matcher, Str_a)
    /\ out = <<>> /\ state = "Skip"
    /\ diag = <<Line("binary", Str_a)>>

\* a pattern without its leading separator
WithoutLeadingSep(f) == IF f # <<>> /\ f[1] = SEP THEN Tail(f) ELSE f

\* C19: the matcher built from the patterns as given is the matcher built from
\* the same patterns without their leading separator: the same exact_file, the
\* same answer of is_match for every candidate; so "/a" gives basename matching
\* as "a" does, and "/d/a" accepts the entry "d/a".
C19_LeadingSepStripped ==
    MatcherNew =>
        LET given == args.files
            bare  == Match_new(args.regex,
                               [i \in 1..Len(given) |-> WithoutLeadingSep(given[i])])
        IN  /\ matcher.exact_file = bare.exact_file
            /\ \A c \in Candidates : is_match(matcher, c) <=> is_match(bare, c)
            /\ (~args.regex /\ given = <<Str_sa>>)
               => ~matcher.exact_file /\ is_match(matcher, Str_da)
            /\ (~args.regex /\ \E i \in 1..Len(given) : given[i] = Str_sda)
               => matcher.exact_file /\ is_match(matcher, Str_da)
                  /\ ~is_match(matcher, Str_a)

\* the patterns "/d/a" and "b" were given and the scan has counted the entry
\* "d/a"
C19_Witness ==
    /\ ~args.regex /\ args.files = <<Str_sda, Str_b>>
    /\ pc = "dump" /\ stream = <<StartOfEntry(Str_da)>> /\ found = 1

\* the stream is a prefix of (StartOfEntry DataChunk* EndOfEntry)*
FollowsGrammar(s) ==
    \A j \in 1..Len(s) :
        /\ s[j].t # "Err"
        /\ s[j].t = "StartOfEntry" => (j = 1 \/ s[j - 1].t = "EndOfEntry")
        /\ s[j].t \in {"DataChunk", "EndOfEntry"}
           => (j > 1 /\ s[j - 1].t \in {"StartOfEntry", "DataChunk"})

\* the DataChunks of the matched entries of a stream, concatenated in stream
\* order
RECURSIVE MatchedBytes(_, _)
MatchedBytes(m, s) ==
    IF s = <<>> THEN <<>>
    ELSE MatchedBytes(m, Front(s))
         \o (IF Last(s).t = "DataChunk" /\ InMatchedEntry(m, s)
             THEN Last(s).data ELSE <<>>)

====
